---- MODULE Spec2Model ----
(***************************************************************************)
(* batch-rename: one run of the command-line tool of src/main.rs.          *)
(*                                                                         *)
(* A run validates the target directory, scans it, builds the rename plan  *)
(* with the transform of the chosen subcommand, previews the plan, reads   *)
(* one confirmation line and applies the plan with fs::rename.             *)
(*                                                                         *)
(* Strings (file names, patterns, input lines) are sequences of            *)
(* one-character strings: "a.txt" is <<"a", ".", "t", "x", "t">>.          *)
(***************************************************************************)
EXTENDS Integers, Sequences, FiniteSets, TLC

VARIABLES
    pc,             \* position of the run in main / batch_rename
    dirState,       \* what cli.directory denotes: "missing", "notdir", "dir"
    fs,             \* the directory: set of [name, obj], obj the object's identity
    cmd,            \* cli.command
    verbose,        \* cli.verbose
    readdir,        \* outcome of fs::read_dir: "none", "ok", "err"
    entries,        \* batch_rename: entries (scan enumeration order)
    k,              \* batch_rename: number of entries the preview loop has visited
    new_name,       \* batch_rename: Option of the loop's new_name, <<>> or <<name>>
    changes,        \* batch_rename: changes, triples <<old_name, new_name, path>>
    out,            \* lines printed to standard output
    stdin,          \* outcome of io::stdin().read_line: "unread", "ok", "err"
    input,          \* batch_rename: input
    reads,          \* number of read_line calls made
    idx,            \* batch_rename: number of plan entries the apply loop has consumed
    attempts,       \* the fs::rename calls made, in order, with their result
    success_count,  \* batch_rename: success_count
    error_count,    \* batch_rename: error_count
    exit            \* process exit: "running", "ok" (status 0), "err" (status 1)

vars == <<pc, dirState, fs, cmd, verbose, readdir, entries, k, new_name, changes,
          out, stdin, input, reads, idx, attempts, success_count, error_count, exit>>

-----------------------------------------------------------------------------
(* Bounds *)

\* Longest file name drawn exhaustively in the transform specifications.
MaxNameLen == 4
\* Longest pattern / suffix drawn exhaustively in the transform specifications.
MaxPatLen == 2
\* Largest number of directory entries in the run specification.
MaxEntries == 3

-----------------------------------------------------------------------------
(* Strings *)

\* Every string over alphabet A of length at most n.
Strs(A, n) == UNION {[1..m -> A] : m \in 0..n}

\* s[from..] : the suffix of s starting at 1-based position from.
Tail_(s, from) == SubSeq(s, from, Len(s))

\* Whether pattern p occurs in s starting at 1-based position i.
OccursAt(s, p, i) ==
    /\ i >= 1
    /\ i + Len(p) - 1 <= Len(s)
    /\ \A j \in 1..Len(p) : s[i + j - 1] = p[j]

\* str::contains
Contains(s, p) == \E i \in 1..(Len(s) + 1) : OccursAt(s, p, i)

\* str::replace(from, to): scan left to right from position i; every match of
\* `from` found is replaced by `to` and the scan resumes after the match.  The
\* empty pattern matches at every character boundary.
RECURSIVE str_replace_from(_, _, _, _)
str_replace_from(s, from, to, i) ==
    IF from = <<>>
    THEN IF i > Len(s) THEN to
         ELSE to \o <<s[i]>> \o str_replace_from(s, from, to, i + 1)
    ELSE IF i > Len(s) THEN <<>>
         ELSE IF OccursAt(s, from, i)
              THEN to \o str_replace_from(s, from, to, i + Len(from))
              ELSE <<s[i]>> \o str_replace_from(s, from, to, i + 1)

str_replace(s, from, to) == str_replace_from(s, from, to, 1)

\* str::replacen(from, to, 1): only the first match is replaced.
RECURSIVE str_replace_first_from(_, _, _, _)
str_replace_first_from(s, from, to, i) ==
    IF i > Len(s) THEN (IF from = <<>> THEN to ELSE <<>>)
    ELSE IF OccursAt(s, from, i)
         THEN to \o Tail_(s, i + Len(from))
         ELSE <<s[i]>> \o str_replace_first_from(s, from, to, i + 1)

\* str::rfind(c): 0-based index of the last c in s, -1 for None.
RECURSIVE rfind_from(_, _, _)
rfind_from(s, c, i) ==
    IF i = 0 THEN -1
    ELSE IF s[i] = c THEN i - 1
    ELSE rfind_from(s, c, i - 1)

rfind(s, c) == rfind_from(s, c, Len(s))

\* str::find(c): 0-based index of the first c in s, -1 for None.
RECURSIVE find_from(_, _, _)
find_from(s, c, i) ==
    IF i > Len(s) THEN -1
    ELSE IF s[i] = c THEN i - 1
    ELSE find_from(s, c, i + 1)

\* str::split_at(mid): (s[..mid], s[mid..]) with mid a 0-based index.
split_at(s, mid) == <<SubSeq(s, 1, mid), SubSeq(s, mid + 1, Len(s))>>

-----------------------------------------------------------------------------
(* Transform functions, src/main.rs 198-224 *)

\* Faulty variant of remove_string: only the first occurrence is deleted.
remove_string_first_only(name, pattern) ==
    str_replace_first_from(name, pattern, <<>>, 1)

remove_string(name, pattern) == str_replace(name, pattern, <<>>)

replace_string(name, old, new) == str_replace(name, old, new)

add_prefix(name, prefix) == prefix \o name

\* Faulty variant of add_suffix: splits at the first "." (find for rfind).
add_suffix_first_dot(name, suffix) ==
    LET dot_index == find_from(name, ".", 1) IN
    IF dot_index # -1
    THEN LET parts == split_at(name, dot_index) IN parts[1] \o suffix \o parts[2]
    ELSE name \o suffix

add_suffix(name, suffix) ==
    LET dot_index == rfind(name, ".") IN
    IF dot_index # -1
    THEN LET parts == split_at(name, dot_index) IN parts[1] \o suffix \o parts[2]
    ELSE name \o suffix

\* regex::Regex::new on the pattern language of the model: literal characters,
\* "." (any character), "^" (start of text) and "[" (opens a character class).
\* No pattern of the model closes a class, so a pattern holding "[" does not
\* compile; every other pattern does.
regex_new_ok(pattern) == \A i \in 1..Len(pattern) : pattern[i] # "["

\* Where a match of pattern elements j.. that starts at 1-based position i of
\* s ends (the position after the match), 0 when there is none.
RECURSIVE re_match_end(_, _, _, _)
re_match_end(s, pattern, i, j) ==
    IF j > Len(pattern) THEN i
    ELSE IF pattern[j] = "^"
         THEN IF i = 1 THEN re_match_end(s, pattern, i, j + 1) ELSE 0
         ELSE IF i > Len(s) THEN 0
              ELSE IF pattern[j] = "." \/ pattern[j] = s[i]
                   THEN re_match_end(s, pattern, i + 1, j + 1)
                   ELSE 0

\* Regex::replace_all: leftmost non-overlapping matches, scanning from i; an
\* empty match is replaced and the scan moves one character on.
RECURSIVE re_replace_all_from(_, _, _, _)
re_replace_all_from(s, pattern, replacement, i) ==
    LET e == re_match_end(s, pattern, i, 1) IN
    IF e = 0 \/ e = i
    THEN (IF e = i THEN replacement ELSE <<>>) \o
         (IF i > Len(s) THEN <<>>
          ELSE <<s[i]>> \o re_replace_all_from(s, pattern, replacement, i + 1))
    ELSE replacement \o
         (IF e > Len(s) THEN <<>>
          ELSE re_replace_all_from(s, pattern, replacement, e))

\* Faulty variant of regex_replace: a pattern that does not compile changes the name.
regex_replace_surfacing_error(name, pattern, replacement) ==
    IF regex_new_ok(pattern)
    THEN re_replace_all_from(name, pattern, replacement, 1)
    ELSE <<"?">>

regex_replace(name, pattern, replacement) ==
    IF regex_new_ok(pattern)
    THEN re_replace_all_from(name, pattern, replacement, 1)
    ELSE name

-----------------------------------------------------------------------------
(* Command selector, src/main.rs 85-116 *)

\* The closure main hands to batch_rename for cli.command.
rename_func(command, name) ==
    CASE command.tag = "Remove" -> remove_string(name, command.pattern)
      [] command.tag = "Replace" -> replace_string(name, command.old, command.new)
      [] command.tag = "AddPrefix" -> add_prefix(name, command.prefix)
      [] command.tag = "AddSuffix" -> add_suffix(name, command.suffix)
      [] command.tag = "RegexReplace" ->
            regex_replace(name, command.pattern, command.replacement)

Remove(p) == [tag |-> "Remove", pattern |-> p]
Replace(o, n) == [tag |-> "Replace", old |-> o, new |-> n]
AddPrefix(p) == [tag |-> "AddPrefix", prefix |-> p]
AddSuffix(s) == [tag |-> "AddSuffix", suffix |-> s]
RegexReplace(p, r) == [tag |-> "RegexReplace", pattern |-> p, replacement |-> r]

-----------------------------------------------------------------------------
(* Paths and the directory *)

\* cli.directory, the target of the run.
TargetDir == "dir"

\* Path::join for a relative, slash-free component.
join(parent, component) == [parent |-> parent, file_name |-> component]

\* A byte that is not valid UTF-8: OsStr::to_str is None for a name holding it.
BadByte == "\\xFF"

to_str_ok(file_name) == \A i \in 1..Len(file_name) : file_name[i] # BadByte

\* Names a rename cannot create inside the directory: the directory itself
\* (empty component), "." and "..".
NotCreatable == {<<>>, <<".">>, <<".", ".">>}

\* fs::rename(from, to) inside the target directory.  io_ok is the environment
\* (permissions, device errors).  The call fails when the environment fails it,
\* when `from` names nothing, or when `to` cannot be created; otherwise `from`
\* is moved to `to`, and an object already named `to` is replaced.
fs_rename(dir, from, to, io_ok) ==
    LET src == {f \in dir : f.name = from.file_name} IN
    IF ~io_ok \/ src = {} \/ to.file_name \in NotCreatable
    THEN [ok |-> FALSE, fs |-> dir]
    ELSE [ok |-> TRUE,
          fs |-> {f \in dir : f.name # from.file_name /\ f.name # to.file_name}
                 \cup {[name |-> to.file_name, obj |-> f.obj] : f \in src}]

\* Every enumeration order of a set of directory objects.
Orders(S) ==
    {o \in [1..Cardinality(S) -> S] : \A i, j \in 1..Cardinality(S) : o[i] = o[j] => i = j}

-----------------------------------------------------------------------------
(* Confirmation line, src/main.rs 167 *)

WhiteSpace == {" ", "\n", "\t", "\r"}

\* char::to_lowercase on the characters of the model.
lower_char(c) ==
    CASE c = "Y" -> "y" [] c = "E" -> "e" [] c = "S" -> "s" [] c = "N" -> "n"
      [] c = "O" -> "o" [] OTHER -> c

to_lowercase(s) == [i \in 1..Len(s) |-> lower_char(s[i])]

\* str::trim: leading and trailing whitespace removed.
trim(s) ==
    LET keep == {i \in 1..Len(s) : s[i] \notin WhiteSpace} IN
    IF keep = {} THEN <<>>
    ELSE SubSeq(s, CHOOSE i \in keep : \A j \in keep : i <= j,
                   CHOOSE i \in keep : \A j \in keep : i >= j)

\* Accepts every line that starts with y after trimming and lower-casing.
is_affirmative_prefix(line) ==
    LET t == to_lowercase(trim(line)) IN
    t # <<>> /\ t[1] = "y"

\* The negation of the condition of line 167.
is_affirmative(line) ==
    ~(to_lowercase(trim(line)) # <<"y">> /\ to_lowercase(trim(line)) # <<"y", "e", "s">>)

\* The lines the run may read: what read_line leaves in `input` (the line with
\* its newline, or what precedes end of input).
Lines ==
    { <<>>, <<"\n">>, <<"y", "\n">>, <<"Y", "\n">>, <<"y">>,
      <<"y", "e", "s", "\n">>, <<"Y", "E", "S", "\n">>, <<"Y", "e", "s">>,
      <<" ", "y", " ", "\r", "\n">>, <<"\t", "y", "e", "s", "\n">>,
      <<"N", "o", "\n">>, <<"y", "e", "s", "s", "\n">>, <<"y", " ", "e", "s", "\n">> }

-----------------------------------------------------------------------------
(* main, src/main.rs 69-119 *)

\* Lines 69-116 up to the call of batch_rename: the target is validated; a
\* missing target or a target that is no directory returns Err (exit status 1).
Main ==
    /\ pc = "main"
    /\ IF dirState # "dir"
       THEN /\ exit' = "err"
            /\ pc' = "done"
            /\ out' = out
       ELSE /\ exit' = exit
            /\ pc' = "read_dir"
            /\ out' = IF verbose
                      THEN out \o <<[msg |-> "target_dir"], [msg |-> "command", command |-> cmd]>>
                      ELSE out
    /\ UNCHANGED <<dirState, fs, cmd, verbose, readdir, entries, k, new_name, changes,
                   stdin, input, reads, idx, attempts, success_count, error_count>>

-----------------------------------------------------------------------------
(* batch_rename, src/main.rs 121-196 *)

\* Lines 125-136.  read_dir fails (the error is returned by `?`) or enumerates
\* the directory in some order; entries whose enumeration fails are dropped by
\* filter_map(|entry| entry.ok()).  No entry: "目录为空" and Ok.
Scan ==
    /\ pc = "read_dir"
    /\ \E ok \in BOOLEAN :
         IF ~ok
         THEN /\ readdir' = "err"
              /\ exit' = "err"
              /\ pc' = "done"
              /\ UNCHANGED <<entries, out>>
         ELSE /\ readdir' = "ok"
              /\ \E listed \in SUBSET fs : \E order \in Orders(listed) :
                   /\ entries' = [i \in 1..Len(order) |->
                                     [path |-> join(TargetDir, order[i].name)]]
                   /\ IF Len(order) = 0
                      THEN /\ out' = Append(out, [msg |-> "empty_dir"])
                           /\ exit' = "ok"
                           /\ pc' = "done"
                      ELSE /\ out' = IF verbose
                                     THEN Append(out, [msg |-> "found", n |-> Len(order)])
                                     ELSE out
                           /\ exit' = exit
                           /\ pc' = "plan"
    /\ UNCHANGED <<dirState, fs, cmd, verbose, k, new_name, changes,
                   stdin, input, reads, idx, attempts, success_count, error_count>>

\* Faulty variant of plan_push: the comparison of line 146 is missing.
plan_push_always(plan, name_str, new, path) ==
    Append(plan, <<name_str, new, path>>)

\* Lines 146-148: the entry joins the plan when its name changes.
plan_push(plan, name_str, new, path) ==
    IF new # name_str
    THEN Append(plan, <<name_str, new, path>>)
    ELSE plan

\* Lines 141-151, one iteration of the preview loop over entries.
PlanStep ==
    /\ pc = "plan"
    /\ k < Len(entries)
    /\ LET path == entries[k + 1].path
           file_name == path.file_name
       IN IF to_str_ok(file_name)
          THEN /\ new_name' = <<rename_func(cmd, file_name)>>
               /\ changes' = plan_push(changes, file_name, new_name'[1], path)
          ELSE /\ new_name' = <<>>
               /\ changes' = changes
    /\ k' = k + 1
    /\ UNCHANGED <<pc, dirState, fs, cmd, verbose, readdir, entries, out,
                   stdin, input, reads, idx, attempts, success_count, error_count, exit>>

\* Faulty variant of preview_lines: old and new name swapped in the print.
preview_lines_swapped(plan) ==
    <<[msg |-> "preview_header", n |-> Len(plan)]>>
    \o [i \in 1..Len(plan) |-> [msg |-> "preview", old |-> plan[i][2], new |-> plan[i][1]]]
    \o <<[msg |-> "prompt"]>>

\* The lines of the preview, lines 158-163.
preview_lines(plan) ==
    <<[msg |-> "preview_header", n |-> Len(plan)]>>
    \o [i \in 1..Len(plan) |-> [msg |-> "preview", old |-> plan[i][1], new |-> plan[i][2]]]
    \o <<[msg |-> "prompt"]>>

\* Faulty variant of Preview: the return of lines 153-156 is missing.
Preview_prompts_on_empty_plan ==
    /\ pc = "plan"
    /\ k = Len(entries)
    /\ out' = out \o preview_lines(changes)
    /\ exit' = exit
    /\ pc' = "confirm"
    /\ UNCHANGED <<dirState, fs, cmd, verbose, readdir, entries, k, new_name, changes,
                   stdin, input, reads, idx, attempts, success_count, error_count>>

\* Lines 153-163, after the loop: an empty plan prints "没有需要更改的文件名"
\* and returns Ok; otherwise the plan and the prompt are printed.
Preview ==
    /\ pc = "plan"
    /\ k = Len(entries)
    /\ IF changes = <<>>
       THEN /\ out' = Append(out, [msg |-> "nothing_to_change"])
            /\ exit' = "ok"
            /\ pc' = "done"
       ELSE /\ out' = out \o preview_lines(changes)
            /\ exit' = exit
            /\ pc' = "confirm"
    /\ UNCHANGED <<dirState, fs, cmd, verbose, readdir, entries, k, new_name, changes,
                   stdin, input, reads, idx, attempts, success_count, error_count>>

\* Lines 164-170.  read_line fails (the error is returned by `?`) or leaves a
\* line in input; anything but y / yes prints "操作已取消" and returns Ok.
Confirm ==
    /\ pc = "confirm"
    /\ reads' = reads + 1
    /\ \E ok \in BOOLEAN :
         IF ~ok
         THEN /\ stdin' = "err"
              /\ exit' = "err"
              /\ pc' = "done"
              /\ UNCHANGED <<input, out>>
         ELSE /\ stdin' = "ok"
              /\ \E line \in Lines :
                   /\ input' = line
                   /\ IF is_affirmative(line)
                      THEN /\ out' = out
                           /\ exit' = exit
                           /\ pc' = "apply"
                      ELSE /\ out' = Append(out, [msg |-> "cancelled"])
                           /\ exit' = "ok"
                           /\ pc' = "done"
    /\ UNCHANGED <<dirState, fs, cmd, verbose, readdir, entries, k, new_name, changes,
                   idx, attempts, success_count, error_count>>

\* Faulty variant of tally: a failed rename is not counted.
tally_failure_dropped(success, failure, ok) ==
    IF ok THEN <<success + 1, failure>> ELSE <<success, failure>>

\* Lines 181-190: the counters after a rename that returned Ok (ok) or Err.
tally(success, failure, ok) ==
    IF ok THEN <<success + 1, failure>> ELSE <<success, failure + 1>>

\* Lines 176-192, one iteration of the apply loop.
ApplyStep ==
    /\ pc = "apply"
    /\ idx < Len(changes)
    /\ LET old_name == changes[idx + 1][1]
           new == changes[idx + 1][2]
           old_path == changes[idx + 1][3]
           parent == old_path.parent
           new_path == join(parent, new)
       IN \E io_ok \in BOOLEAN :
            LET r == fs_rename(fs, old_path, new_path, io_ok) IN
            /\ fs' = r.fs
            /\ attempts' = Append(attempts, [from |-> old_path, to |-> new_path, ok |-> r.ok])
            /\ success_count' = tally(success_count, error_count, r.ok)[1]
            /\ error_count' = tally(success_count, error_count, r.ok)[2]
            /\ out' = IF r.ok
                      THEN IF verbose
                           THEN Append(out, [msg |-> "renamed", old |-> old_name, new |-> new])
                           ELSE out
                      ELSE Append(out, [msg |-> "failed", old |-> old_name, new |-> new])
    /\ idx' = idx + 1
    /\ UNCHANGED <<pc, dirState, cmd, verbose, readdir, entries, k, new_name, changes,
                   stdin, input, reads, exit>>

\* Faulty variant of Report: rename failures turn into a non-zero exit.
Report_fails_on_rename_errors ==
    /\ pc = "apply"
    /\ idx = Len(changes)
    /\ out' = Append(out, [msg |-> "done", success |-> success_count, failure |-> error_count])
    /\ exit' = IF error_count > 0 THEN "err" ELSE "ok"
    /\ pc' = "done"
    /\ UNCHANGED <<dirState, fs, cmd, verbose, readdir, entries, k, new_name, changes,
                   stdin, input, reads, idx, attempts, success_count, error_count>>

\* Lines 194-195.
Report ==
    /\ pc = "apply"
    /\ idx = Len(changes)
    /\ out' = Append(out, [msg |-> "done", success |-> success_count, failure |-> error_count])
    /\ exit' = "ok"
    /\ pc' = "done"
    /\ UNCHANGED <<dirState, fs, cmd, verbose, readdir, entries, k, new_name, changes,
                   stdin, input, reads, idx, attempts, success_count, error_count>>

Next == Main \/ Scan \/ PlanStep \/ Preview \/ Confirm \/ ApplyStep \/ Report

-----------------------------------------------------------------------------
(* Initial states *)

\* The state at process start for a command of Cmds and a directory whose
\* set of names is one of Dirs.  A target that is no directory has no entries.
InitRun(Cmds, Dirs) ==
    /\ pc = "main"
    /\ cmd \in Cmds
    /\ verbose \in BOOLEAN
    /\ dirState \in {"missing", "notdir", "dir"}
    /\ \E names \in Dirs :
         fs = IF dirState = "dir" THEN {[name |-> n, obj |-> n] : n \in names} ELSE {}
    /\ readdir = "none"
    /\ entries = <<>>
    /\ k = 0
    /\ new_name = <<>>
    /\ changes = <<>>
    /\ out = <<>>
    /\ stdin = "unread"
    /\ input = <<>>
    /\ reads = 0
    /\ idx = 0
    /\ attempts = <<>>
    /\ success_count = 0
    /\ error_count = 0
    /\ exit = "running"

\* File names of the run specification.
a_txt == <<"a", ".", "t", "x", "t">>
b_txt == <<"b", ".", "t", "x", "t">>
x_txt == <<"x", ".", "t", "x", "t">>
DirNames == {a_txt, b_txt, x_txt, <<"a">>, <<"b", "a">>, <<"a", BadByte>>}

\* Commands of the run specification.
RunCmds ==
    { Replace(<<"a">>, <<"x">>), Remove(<<"a">>), Remove(<<>>),
      AddPrefix(<<"b">>),
      RegexReplace(<<"[">>, <<"x">>), RegexReplace(<<"^", "a">>, <<"x">>),
      RegexReplace(<<"^", ".">>, <<"x">>) }

Init == InitRun(RunCmds, {d \in SUBSET DirNames : Cardinality(d) <= MaxEntries})

Spec == Init /\ [][Next]_vars

-----------------------------------------------------------------------------
(* Transform specifications: a directory of one entry, its name drawn from   *)
(* every string up to MaxNameLen, and one subcommand with its argument drawn *)
(* from every string up to MaxPatLen.                                        *)

NonEmpty(S) == S \ {<<>>}

file_txt == <<"f", "i", "l", "e", ".", "t", "x", "t">>
README == <<"R", "E", "A", "D", "M", "E">>
v2 == <<"_", "v", "2">>
old_ == <<"_", "o", "l", "d">>

InitRemove ==
    InitRun({Remove(p) : p \in Strs({"a", "b"}, MaxPatLen)},
            {{n} : n \in NonEmpty(Strs({"a", "b"}, MaxNameLen))})

SpecRemove == InitRemove /\ [][Next]_vars

InitAddSuffix ==
    InitRun({AddSuffix(s) : s \in Strs({"a", "."}, MaxPatLen) \cup {v2, old_}},
            {{n} : n \in NonEmpty(Strs({"a", "."}, MaxNameLen)) \cup {file_txt, README}})

SpecAddSuffix == InitAddSuffix /\ [][Next]_vars

-----------------------------------------------------------------------------
(* Properties *)

\* Name of the i-th scanned entry.
EntryName(i) == entries[i].path.file_name

\* Last line printed.
LastOut == out[Len(out)]

\* The (old, new) pairs the preview printed, in print order.
Previewed == SelectSeq(out, LAMBDA m : m.msg = "preview")

\* The n-th smallest element of a finite set of integers.
Nth(S, n) == CHOOSE i \in S : Cardinality({j \in S : j <= i}) = n

\* The run ended by user cancellation.
Cancelled == pc = "done" /\ exit = "ok" /\ out # <<>> /\ LastOut = [msg |-> "cancelled"]

\* Every object of the directory still carries the name it had at process
\* start, and every scanned entry is still there.
DirAsScanned ==
    /\ \A f \in fs : f.name = f.obj
    /\ \A i \in 1..Len(entries) : \E f \in fs : f.name = EntryName(i)

\* C1: with a non-empty plan, a confirmation line that is not y / yes after
\* trimming and lower-casing (empty input and end of input included) leads to
\* no rename at all: the directory is as scanned and the run ends cancelled.
C1_DeclineRenamesNothing ==
    (stdin = "ok" /\ to_lowercase(trim(input)) \notin {<<"y">>, <<"y", "e", "s">>})
        => /\ changes # <<>>
           /\ attempts = <<>>
           /\ DirAsScanned
           /\ Cancelled

C1_Witness ==
    /\ stdin = "ok"
    /\ input = <<"y", "e", "s", "s", "\n">>
    /\ Len(changes) >= 2
    /\ Cancelled

\* C2 as stated: a non-zero exit only for a missing target, a target that is
\* no directory, or a scan failure.
C2_NonZeroOnlyForDirectory ==
    exit = "err" => (dirState # "dir" \/ readdir = "err")

\* C2 amended: a non-zero exit exactly for a missing target, a target that is
\* no directory, a scan failure, or a failure to read the confirmation line;
\* every other way the run ends (empty directory, empty plan, cancellation,
\* rename failures) exits with status 0.
C2_ExitStatus ==
    /\ pc # "done" => exit = "running"
    /\ pc = "done" => exit \in {"ok", "err"}
    /\ pc = "done" =>
         (exit = "err" <=> (dirState # "dir" \/ readdir = "err" \/ stdin = "err"))

C2_Witness ==
    /\ pc = "done"
    /\ exit = "ok"
    /\ Len(changes) >= 2
    /\ error_count = Len(changes)

\* Number of rename attempts that failed.
FailedAttempts == Cardinality({i \in 1..Len(attempts) : ~attempts[i].ok})

\* The run went through the apply loop and printed its report.
Reported == pc = "done" /\ out # <<>> /\ LastOut.msg = "done"

\* C3: a failed rename does not stop the apply loop.  Every plan entry is
\* attempted; successes + failures is the number of attempts made so far and
\* the plan length at the end; the failure counter is the number of attempts
\* that failed, and the report prints these counters.
C3_ApplyLoopTally ==
    /\ success_count + error_count = Len(attempts)
    /\ error_count = FailedAttempts
    /\ pc = "apply" => Len(attempts) = idx
    /\ (pc = "apply" /\ idx < Len(changes)) => ENABLED ApplyStep
    /\ Reported =>
         /\ Len(attempts) = Len(changes)
         /\ success_count + error_count = Len(changes)
         /\ LastOut = [msg |-> "done", success |-> success_count, failure |-> FailedAttempts]

C3_Witness ==
    /\ Reported
    /\ Len(changes) = 3
    /\ ~attempts[1].ok /\ attempts[2].ok /\ attempts[3].ok
    /\ error_count = 1
    /\ success_count = 2

\* C4: after an affirmative confirmation the rename attempts are the previewed
\* plan: the i-th attempt renames the i-th previewed original, inside the
\* target directory, to the i-th previewed new name; no attempt is made beyond
\* the preview, and the report comes when each entry was attempted once.
C4_AttemptsArePreviewedPlan ==
    /\ Len(attempts) <= Len(Previewed)
    /\ \A i \in 1..Len(attempts) :
         /\ attempts[i].from = join(TargetDir, Previewed[i].old)
         /\ attempts[i].to = join(TargetDir, Previewed[i].new)
         /\ attempts[i].from = changes[i][3]
    /\ \A i, j \in 1..Len(attempts) : attempts[i].from = attempts[j].from => i = j
    /\ Reported => Len(attempts) = Len(Previewed)

C4_Witness ==
    /\ Reported
    /\ Len(attempts) = 3
    /\ Len(Previewed) = 3
    /\ ~attempts[2].ok

\* Indices of the first n scanned entries whose name decodes and is changed
\* by the transform.
Changed(n) ==
    {i \in 1..n : to_str_ok(EntryName(i)) /\ rename_func(cmd, EntryName(i)) # EntryName(i)}

\* C5: the plan holds exactly the scanned entries whose transformed name
\* differs from the original (unchanged and non-decodable names left out),
\* one triple per entry, in scan order; {a.txt, b.txt} with Replace(a, x)
\* gives the single entry (a.txt, x.txt).
C5_PlanIsChangedEntries ==
    /\ Len(changes) = Cardinality(Changed(k))
    /\ \A j \in 1..Len(changes) :
         LET i == Nth(Changed(k), j) IN
         changes[j] = <<EntryName(i), rename_func(cmd, EntryName(i)), entries[i].path>>
    /\ ( /\ cmd = Replace(<<"a">>, <<"x">>)
         /\ k = 2
         /\ {EntryName(1), EntryName(2)} = {a_txt, b_txt} )
       => changes = << <<a_txt, x_txt, join(TargetDir, a_txt)>> >>

C5_Witness ==
    /\ cmd = Replace(<<"a">>, <<"x">>)
    /\ k = 2
    /\ Len(entries) = 2
    /\ EntryName(1) = b_txt
    /\ EntryName(2) = a_txt
    /\ changes = << <<a_txt, x_txt, join(TargetDir, a_txt)>> >>

\* Whether the whole preview of the plan (every pair, then the prompt) is the
\* end of what was printed when the line was read.
PreviewPrinted ==
    \E n \in 0..Len(out) :
        /\ n + Len(preview_lines(changes)) <= Len(out)
        /\ SubSeq(out, n + 1, n + Len(preview_lines(changes))) = preview_lines(changes)

\* C6: standard input is read once when the plan is non-empty and never when
\* it is empty; an empty plan ends the run with status 0, no prompt and no
\* rename; the read comes after the full preview and before any rename.
C6_OneReadOnlyForNonEmptyPlan ==
    /\ reads \in {0, 1}
    /\ reads = 1 => (changes # <<>> /\ PreviewPrinted)
    /\ attempts # <<>> => reads = 1
    /\ pc \in {"apply"} => reads = 1
    /\ (pc = "done" /\ changes # <<>>) => reads = 1
    /\ (pc = "done" /\ readdir = "ok" /\ changes = <<>>) =>
         /\ reads = 0
         /\ attempts = <<>>
         /\ exit = "ok"
         /\ \A i \in 1..Len(out) : out[i].msg # "prompt"

C6_Witness ==
    /\ pc = "done"
    /\ reads = 1
    /\ Len(attempts) = 2
    /\ PreviewPrinted

\* C7: regex-replace with a pattern that does not compile (an unclosed "[")
\* leaves every name unchanged, so the plan is empty: no prompt, no read, no
\* rename, and a scanned run ends with status 0.
C7_BadRegexIsNoOp ==
    (cmd.tag = "RegexReplace" /\ \E i \in 1..Len(cmd.pattern) : cmd.pattern[i] = "[")
        => /\ new_name # <<>> => new_name[1] = EntryName(k)
           /\ changes = <<>>
           /\ reads = 0
           /\ attempts = <<>>
           /\ \A i \in 1..Len(out) : out[i].msg \notin {"prompt", "preview", "failed"}
           /\ (pc = "done" /\ readdir = "ok") => exit = "ok"

C7_Witness ==
    /\ cmd = RegexReplace(<<"[">>, <<"x">>)
    /\ pc = "done"
    /\ Len(entries) = 3
    /\ k = 3
    /\ LastOut = [msg |-> "nothing_to_change"]
    /\ exit = "ok"

\* The starts of the leftmost-first non-overlapping occurrences of p in s:
\* occurrences, pairwise disjoint, and every other occurrence is overlapped by
\* one that starts before it.
MatchStarts(s, p) ==
    CHOOSE S \in SUBSET (1..Len(s)) :
        /\ \A i \in S : OccursAt(s, p, i)
        /\ \A i, j \in S : i < j => i + Len(p) <= j
        /\ \A i \in 1..Len(s) :
             (OccursAt(s, p, i) /\ i \notin S) => \E j \in S : j < i /\ i < j + Len(p)

\* Positions of s outside every occurrence of MatchStarts.
KeptPositions(s, p) ==
    {i \in 1..Len(s) : ~\E j \in MatchStarts(s, p) : j <= i /\ i < j + Len(p)}

\* s with the occurrences of MatchStarts deleted.
Deleted(s, p) ==
    [n \in 1..Cardinality(KeptPositions(s, p)) |-> s[Nth(KeptPositions(s, p), n)]]

\* The transform specifications have one entry: the name the transform got.
RemoveCase == new_name # <<>> /\ cmd.tag = "Remove" /\ cmd.pattern # <<>>

\* C8 as stated: Remove deletes every leftmost-first non-overlapping
\* occurrence of a non-empty pattern, and the pattern does not occur in the
\* output.
C8_NoOccurrenceLeft ==
    RemoveCase =>
        /\ new_name[1] = Deleted(EntryName(k), cmd.pattern)
        /\ ~Contains(new_name[1], cmd.pattern)

\* C8 amended: Remove deletes every leftmost-first non-overlapping occurrence
\* of a non-empty pattern in one pass.  The pattern may occur in the output,
\* but only across a deletion point: the characters of such an occurrence
\* were not adjacent in the name.
C8_RemoveIsOnePass ==
    RemoveCase =>
        LET n == EntryName(k)
            p == cmd.pattern
            r == new_name[1]
        IN /\ r = Deleted(n, p)
           /\ \A i \in 1..Len(r) :
                OccursAt(r, p, i) =>
                    Nth(KeptPositions(n, p), i + Len(p) - 1) - Nth(KeptPositions(n, p), i)
                        # Len(p) - 1

C8_Witness ==
    /\ RemoveCase
    /\ EntryName(k) = <<"a", "a", "b", "b">>
    /\ cmd.pattern = <<"a", "b">>
    /\ new_name = << <<"a", "b">> >>

\* C9: AddSuffix(s) puts s right before the last "." of the name, the part
\* from that "." on kept after s, or at the end of a name without "."; the
\* result has the length of the name plus the length of s; file.txt with _v2
\* gives file_v2.txt and README with _old gives README_old.
C9_AddSuffixBeforeLastDot ==
    (new_name # <<>> /\ cmd.tag = "AddSuffix") =>
        LET n == EntryName(k)
            s == cmd.suffix
            r == new_name[1]
            dots == {i \in 1..Len(n) : n[i] = "."}
        IN /\ Len(r) = Len(n) + Len(s)
           /\ dots = {} => r = n \o s
           /\ dots # {} =>
                LET d == CHOOSE i \in dots : \A j \in dots : j <= i IN
                /\ SubSeq(r, 1, d - 1) = SubSeq(n, 1, d - 1)
                /\ SubSeq(r, d, d + Len(s) - 1) = s
                /\ SubSeq(r, d + Len(s), Len(r)) = SubSeq(n, d, Len(n))
           /\ (n = file_txt /\ s = v2) =>
                r = <<"f", "i", "l", "e", "_", "v", "2", ".", "t", "x", "t">>
           /\ (n = README /\ s = old_) =>
                r = <<"R", "E", "A", "D", "M", "E", "_", "o", "l", "d">>

C9_Witness ==
    /\ cmd = AddSuffix(<<"a">>)
    /\ k = 1
    /\ EntryName(1) = <<".", "a", ".", "a">>
    /\ new_name = << <<".", "a", "a", ".", "a">> >>

\* C10: in the apply loop, a rename whose destination name is already in the
\* directory fails: the failure counter counts it, the success counter does
\* not, and the directory is left as it was.
C10_CollisionIsFailure ==
    [][ (attempts' # attempts /\ \E f \in fs : f.name = changes[idx + 1][2])
            => /\ ~attempts'[Len(attempts')].ok
               /\ error_count' = error_count + 1
               /\ success_count' = success_count
               /\ fs' = fs ]_vars

====
